---------------------------- MODULE Spec2Model ----------------------------
(***************************************************************************)
(* Model of the xdg-desktop-entry parser (src/src/lib.rs).                 *)
(*                                                                         *)
(* A text is a sequence of characters; a character is a one-element token  *)
(* ("a", "[", "\n", ...).  The two non-ASCII characters are named by their *)
(* code point ("U+00E9", "U+20AC") and carry their UTF-8 width, because    *)
(* the code mixes character indices and byte indices.                      *)
(*                                                                         *)
(* A parser result is [k |-> "Ok", rest, val], or one of Error (nom's      *)
(* recoverable Err::Error), Failure (nom's Err::Failure, produced by cut)  *)
(* and Panic (a Rust panic unwinding out of the parser).                   *)
(***************************************************************************)
EXTENDS Integers, Sequences, FiniteSets, TLC

(***************************************************************************)
(* Characters and character classes                                        *)
(***************************************************************************)
Lower == {"a", "b", "c", "d", "e", "f", "g", "h", "i", "j", "k", "l", "m",
          "n", "o", "p", "q", "r", "s", "t", "u", "v", "w", "x", "y", "z"}
Upper == {"A", "B", "C", "D", "E", "F", "G", "H", "I", "J", "K", "L", "M",
          "N", "O", "P", "Q", "R", "S", "T", "U", "V", "W", "X", "Y", "Z"}
Digits == {"0", "1", "2", "3", "4", "5", "6", "7", "8", "9"}
Punct == {" ", "#", "[", "]", "=", "\\", ";", ".", "_", "@", "-", "+", "%",
          "'", "!", "/"}
Control == {"\n", "\r", "\t"}
NonAscii == {"U+00E9", "U+20AC"}
AllChars == Lower \cup Upper \cup Digits \cup Punct \cup Control \cup NonAscii

ESCAPE_CHAR == "\\"

is_ascii_char(c) == c \notin NonAscii
is_control(c) == c \in Control
is_ascii_alphanumeric(c) == c \in Lower \cup Upper \cup Digits
is_ascii(s) == \A i \in 1..Len(s) : is_ascii_char(s[i])

\* char::len_utf8: U+00E9 is two bytes, U+20AC three, ASCII one.
len_utf8(c) == IF c = "U+00E9" THEN 2 ELSE IF c = "U+20AC" THEN 3 ELSE 1

RECURSIVE byte_len(_)
byte_len(s) == IF s = <<>> THEN 0 ELSE len_utf8(Head(s)) + byte_len(Tail(s))

Take(s, n) == SubSeq(s, 1, n)
Drop(s, n) == SubSeq(s, n + 1, Len(s))

\* str::is_char_boundary for a byte index n of s.
is_char_boundary(s, n) == \E j \in 0..Len(s) : byte_len(Take(s, j)) = n

\* The number of characters of s in front of the boundary at byte index n.
chars_before(s, n) == CHOOSE j \in 0..Len(s) : byte_len(Take(s, j)) = n

(***************************************************************************)
(* Results                                                                 *)
(***************************************************************************)
Ok(rest, val) == [k |-> "Ok", rest |-> rest, val |-> val]
Error == [k |-> "Error"]
Failure == [k |-> "Failure"]
Panic == [k |-> "Panic"]
IsOk(r) == r.k = "Ok"

None == <<>>
Some(v) == <<v>>

\* nom's cut: a recoverable error becomes a failure.
cut(r) == IF r.k = "Error" THEN Failure ELSE r

\* nom's alt of two parsers, given their results on the same input: the
\* second is tried only after a recoverable error of the first.
alt(first, second) == IF first.k = "Error" THEN second ELSE first

\* nom's map_parser: the applied parser runs on the output of the first; what
\* the applied parser leaves unconsumed of that output is discarded.
map_parser(first, applied) ==
    IF ~IsOk(first) THEN first
    ELSE IF ~IsOk(applied) THEN applied
    ELSE Ok(first.rest, applied.val)

(***************************************************************************)
(* nom's character parsers                                                 *)
(***************************************************************************)
\* The length of the longest prefix of s whose characters are all in S.
RECURSIVE SpanFrom(_, _, _)
SpanFrom(s, i, S) ==
    IF i > Len(s) \/ s[i] \notin S THEN i - 1 ELSE SpanFrom(s, i + 1, S)

SpanLen(s, S) == SpanFrom(s, 1, S)

StartsWith(s, p) == Len(s) >= Len(p) /\ Take(s, Len(p)) = p

char(c, s) == IF s # <<>> /\ s[1] = c THEN Ok(Tail(s), c) ELSE Error

tag(p, s) == IF StartsWith(s, p) THEN Ok(Drop(s, Len(p)), p) ELSE Error

eof(s) == IF s = <<>> THEN Ok(s, <<>>) ELSE Error

line_ending(s) ==
    IF StartsWith(s, <<"\n">>) THEN Ok(Drop(s, 1), <<"\n">>)
    ELSE IF StartsWith(s, <<"\r", "\n">>) THEN Ok(Drop(s, 2), <<"\r", "\n">>)
    ELSE Error

\* Everything up to the first "\n" or "\r\n"; a "\r" that is not followed by
\* "\n" is an error.
not_line_ending(s) ==
    LET n == SpanLen(s, AllChars \ {"\r", "\n"})
    IN  IF n = Len(s) THEN Ok(<<>>, s)
        ELSE IF s[n + 1] = "\r" /\ ~StartsWith(Drop(s, n), <<"\r", "\n">>)
             THEN Error
        ELSE Ok(Drop(s, n), Take(s, n))

Space == {" ", "\t"}

TakeSpan(s, S) == Take(s, SpanLen(s, S))
DropSpan(s, S) == Drop(s, SpanLen(s, S))

space0(s) == Ok(DropSpan(s, Space), TakeSpan(s, Space))

space1(s) ==
    LET n == SpanLen(s, Space)
    IN  IF n = 0 THEN Error ELSE Ok(Drop(s, n), Take(s, n))

(***************************************************************************)
(* Values (lib.rs 34-42) and nom's float                                   *)
(***************************************************************************)
Boolean(b) == [tag |-> "Boolean", b |-> b]
Numeric(n) == [tag |-> "Numeric", n |-> n]
String(s) == [tag |-> "String", s |-> s]
LocaleString(s) == [tag |-> "LocaleString", s |-> s]

Reverse(s) == [i \in 1..Len(s) |-> s[Len(s) + 1 - i]]

DigitVal(c) ==
    CASE c = "0" -> 0 [] c = "1" -> 1 [] c = "2" -> 2 [] c = "3" -> 3
      [] c = "4" -> 4 [] c = "5" -> 5 [] c = "6" -> 6 [] c = "7" -> 7
      [] c = "8" -> 8 [] c = "9" -> 9

RECURSIVE DecVal(_)
DecVal(d) == IF d = <<>> THEN 0
             ELSE 10 * DecVal(Take(d, Len(d) - 1)) + DigitVal(d[Len(d)])

\* The first eight digits of a digit string, padded with zeros.
Leading(d) == DecVal([i \in 1..8 |-> IF i <= Len(d) THEN d[i] ELSE "0"])

\* An f32 as the decimal it is nearest to: int(digits) * 10^e, digits without
\* leading and trailing zeros.  0.0 and -0.0 are one value (they compare
\* equal); a magnitude that rounds above f32::MAX is an infinity and one
\* that rounds below the least subnormal is zero.  The abstraction keeps
\* literals of up to six significant digits apart, as f32 does.
F32Zero == [cls |-> "finite", neg |-> FALSE, digits |-> <<>>, e |-> 0]
F32Inf(neg) == [cls |-> "inf", neg |-> neg, digits |-> <<>>, e |-> 0]
F32NaN == [cls |-> "nan", neg |-> FALSE, digits |-> <<>>, e |-> 0]

\* nd: the significant digits, e: the power of ten of the last of them.
F32Round(neg, nd, e) ==
    IF nd = <<>> THEN F32Zero
    ELSE IF Len(nd) - 1 + e > 38
            \/ (Len(nd) - 1 + e = 38 /\ Leading(nd) >= 34028236)
         THEN F32Inf(neg)
    ELSE IF Len(nd) - 1 + e < -46
            \/ (Len(nd) - 1 + e = -46 /\ Leading(nd) <= 70064923)
         THEN F32Zero
    ELSE [cls |-> "finite", neg |-> neg, digits |-> nd, e |-> e]

F32Trimmed(neg, m, exp10) ==
    F32Round(neg, Take(m, Len(m) - SpanLen(Reverse(m), {"0"})),
             exp10 + SpanLen(Reverse(m), {"0"}))

F32OfDecimal(neg, mant, exp10) == F32Trimmed(neg, DropSpan(mant, {"0"}), exp10)

\* The value of an exponent's digits; one of more than eight significant
\* digits is beyond every f32 exponent.
ExpVal(expNeg, d) ==
    IF Len(DropSpan(d, {"0"})) > 8
    THEN (IF expNeg THEN -100000000 ELSE 100000000)
    ELSE (IF expNeg THEN 0 - DecVal(DropSpan(d, {"0"})) ELSE DecVal(DropSpan(d, {"0"})))

\* nom::number::complete::recognize_float, with <str as ParseTo<f32>> applied
\* to what it recognizes:
\*   [+-] (digit1 ['.' [digit1]] | '.' digit1) [(e|E) [+-] cut(digit1)]
float_exp_digits(neg, mant, fraclen, expNeg, u) ==
    IF SpanLen(u, Digits) = 0 THEN Failure
    ELSE Ok(DropSpan(u, Digits),
            F32OfDecimal(neg, mant, ExpVal(expNeg, TakeSpan(u, Digits)) - fraclen))

float_exp_sign(neg, mant, fraclen, u) ==
    IF u # <<>> /\ u[1] \in {"+", "-"}
    THEN float_exp_digits(neg, mant, fraclen, u[1] = "-", Tail(u))
    ELSE float_exp_digits(neg, mant, fraclen, FALSE, u)

float_exponent(neg, mant, fraclen, u) ==
    IF u # <<>> /\ u[1] \in {"e", "E"}
    THEN float_exp_sign(neg, mant, fraclen, Tail(u))
    ELSE Ok(u, F32OfDecimal(neg, mant, 0 - fraclen))

float_mantissa(neg, t) ==
    IF SpanLen(t, Digits) > 0
    THEN IF Len(t) > SpanLen(t, Digits) /\ t[SpanLen(t, Digits) + 1] = "."
         THEN float_exponent(neg,
                  TakeSpan(t, Digits) \o TakeSpan(Tail(DropSpan(t, Digits)), Digits),
                  SpanLen(Tail(DropSpan(t, Digits)), Digits),
                  DropSpan(Tail(DropSpan(t, Digits)), Digits))
         ELSE float_exponent(neg, TakeSpan(t, Digits), 0, DropSpan(t, Digits))
    ELSE IF t # <<>> /\ t[1] = "." /\ SpanLen(Tail(t), Digits) > 0
         THEN float_exponent(neg, TakeSpan(Tail(t), Digits),
                             SpanLen(Tail(t), Digits), DropSpan(Tail(t), Digits))
    ELSE Error

recognize_float_value(s) ==
    IF s # <<>> /\ s[1] \in {"+", "-"}
    THEN float_mantissa(s[1] = "-", Tail(s))
    ELSE float_mantissa(FALSE, s)

ToLower(c) ==
    CASE c = "N" -> "n" [] c = "A" -> "a" [] c = "I" -> "i" [] c = "F" -> "f"
      [] OTHER -> c

tag_no_case(p, s) ==
    IF Len(s) >= Len(p) /\ \A i \in 1..Len(p) : ToLower(s[i]) = p[i]
    THEN Ok(Drop(s, Len(p)), Take(s, Len(p)))
    ELSE Error

\* The words float accepts besides a literal, tried in the order nan, inf
\* (infinity is never reached: inf matches first).
float_exceptions(s) ==
    IF IsOk(tag_no_case(<<"n", "a", "n">>, s)) THEN Ok(Drop(s, 3), F32NaN)
    ELSE IF IsOk(tag_no_case(<<"i", "n", "f">>, s)) THEN Ok(Drop(s, 3), F32Inf(FALSE))
    ELSE Error

\* nom::number::complete::float
float(s) == alt(recognize_float_value(s), float_exceptions(s))

(***************************************************************************)
(* Value parsers (lib.rs 261-355)                                          *)
(***************************************************************************)
\* An escape table that leaves \s and \t as the letter after the backslash.
escaped_chars_letters(c) ==
    CASE c = "s" -> Some("s")
      [] c = "n" -> Some("\n")
      [] c = "t" -> Some("t")
      [] c = "r" -> Some("\r")
      [] c = "\\" -> Some("\\")
      [] c = ";" -> Some(";")
      [] OTHER -> None

escaped_chars(c) ==
    CASE c = "s" -> Some(" ")
      [] c = "n" -> Some("\n")
      [] c = "t" -> Some("\t")
      [] c = "r" -> Some("\r")
      [] c = "\\" -> Some("\\")
      [] c = ";" -> Some(";")
      [] OTHER -> None

\* The inner loop of parse_escaped_string (lib.rs 306-320) over the text
\* after the first escape: Some(decoded text), or None on a bad escape.
RECURSIVE unescape_rest(_)
push_escaped(escaped, r) == IF r = None THEN None ELSE Some(escaped \o r[1])
unescape_rest(s) ==
    IF s = <<>> THEN Some(<<>>)
    ELSE IF s[1] = ESCAPE_CHAR
         THEN IF Len(s) < 2 \/ escaped_chars(s[2]) = None THEN None
              ELSE push_escaped(escaped_chars(s[2]), unescape_rest(Drop(s, 2)))
    ELSE push_escaped(<<s[1]>>, unescape_rest(Tail(s)))

\* lib.rs 302-322: the owned string is input[..i], the first escape, and the
\* decoded input[i + 2..].  Both slices index bytes, and a slice that does
\* not fall on a character boundary panics.
escaped_string_from(input, i, escaped) ==
    IF ~is_char_boundary(input, i) \/ ~is_char_boundary(input, i + 2) THEN Panic
    ELSE IF unescape_rest(Drop(input, chars_before(input, i + 2))) = None THEN Error
    ELSE Ok(<<>>, Take(input, chars_before(input, i)) \o escaped
                    \o unescape_rest(Drop(input, chars_before(input, i + 2)))[1])

\* lib.rs 288-300: i is the index of the first backslash counted in
\* characters (chars().enumerate()).
first_escape(input, i) ==
    IF i = Len(input) THEN Ok(<<>>, input)
    ELSE IF Len(input) < i + 2 \/ escaped_chars(input[i + 2]) = None THEN Error
    ELSE escaped_string_from(input, i, escaped_chars(input[i + 2]))

parse_escaped_string(input) ==
    first_escape(input, SpanLen(input, AllChars \ {ESCAPE_CHAR}))

\* verify(_, str::is_ascii)
verify_is_ascii(r) == IF IsOk(r) /\ ~is_ascii(r.val) THEN Error ELSE r

\* map_parser(not_line_ending, cut(parse_escaped_string)), given the result
\* of not_line_ending.
escaped_line(line) ==
    map_parser(line, cut(parse_escaped_string(line.val)))

parse_local_string(input) == escaped_line(not_line_ending(input))

parse_string(input) == verify_is_ascii(escaped_line(not_line_ending(input)))

\* alt((value(true, tag("true")), value(false, tag("false"))))
true_or_false(s) ==
    IF IsOk(tag(<<"t", "r", "u", "e">>, s)) THEN Ok(Drop(s, 4), TRUE)
    ELSE IF IsOk(tag(<<"f", "a", "l", "s", "e">>, s)) THEN Ok(Drop(s, 5), FALSE)
    ELSE Error

boolean_line(line) == map_parser(line, true_or_false(line.val))

parse_boolean(input) == boolean_line(not_line_ending(input))

numeric_line(line) == map_parser(line, float(line.val))

parse_numeric(input) == numeric_line(not_line_ending(input))

\* map(parser, Value::...)
map_value(r, kind) ==
    IF ~IsOk(r) THEN r
    ELSE Ok(r.rest, CASE kind = "Boolean" -> Boolean(r.val)
                      [] kind = "Numeric" -> Numeric(r.val)
                      [] kind = "String" -> String(r.val)
                      [] kind = "LocaleString" -> LocaleString(r.val))

\* The alternatives of parse_value with the string kinds tried first.
parse_value_strings_first(input) ==
    alt(map_value(parse_string(input), "String"),
        alt(map_value(parse_local_string(input), "LocaleString"),
            alt(map_value(parse_boolean(input), "Boolean"),
                map_value(parse_numeric(input), "Numeric"))))

parse_value(input) ==
    alt(map_value(parse_boolean(input), "Boolean"),
        alt(map_value(parse_numeric(input), "Numeric"),
            alt(map_value(parse_string(input), "String"),
                map_value(parse_local_string(input), "LocaleString"))))

(***************************************************************************)
(* Keys (lib.rs 17-32, 218-259)                                            *)
(***************************************************************************)
Simple(name) == [tag |-> "Simple", key |-> name]
Localized(name, locale) == [tag |-> "Localized", key |-> name, locale |-> locale]
Locale(lang, country, encoding, modifier) ==
    [lang |-> lang, country |-> country, encoding |-> encoding,
     modifier |-> modifier]

KeyChars == {c \in AllChars : is_ascii_alphanumeric(c) \/ c = "-"}

parse_key_part(input) ==
    IF SpanLen(input, KeyChars) = 0 THEN Error
    ELSE Ok(DropSpan(input, KeyChars), TakeSpan(input, KeyChars))

\* opt(parser), given the parser's result on input.
opt(input, r) == IF IsOk(r) THEN Ok(r.rest, Some(r.val)) ELSE Ok(input, None)

\* opt(preceded(char(c), parse_key_part))
opt_key_part(c, input) ==
    opt(input, IF IsOk(char(c, input)) THEN parse_key_part(Tail(input)) ELSE Error)

locale_modifier(lang, country, encoding, modifier) ==
    Ok(modifier.rest, Locale(lang, country, encoding, modifier.val))

locale_encoding(lang, country, encoding) ==
    locale_modifier(lang, country, encoding.val, opt_key_part("@", encoding.rest))

locale_country(lang, country) ==
    locale_encoding(lang, country.val, opt_key_part(".", country.rest))

locale_lang(lang) ==
    IF ~IsOk(lang) THEN lang
    ELSE locale_country(lang.val, opt_key_part("_", lang.rest))

parse_key_locale(input) == locale_lang(parse_key_part(input))

\* The bracketed locale accepted without its closing bracket.
bracketed_locale_unclosed(input) ==
    IF ~IsOk(char("[", input)) THEN Error
    ELSE LET locale == parse_key_locale(Tail(input))
         IN  IF ~IsOk(locale) THEN Error
             ELSE IF IsOk(char("]", locale.rest))
                  THEN Ok(Tail(locale.rest), locale.val)
             ELSE Ok(locale.rest, locale.val)

\* delimited(char('['), parse_key_locale, char(']'))
bracketed_locale(input) ==
    IF ~IsOk(char("[", input)) THEN Error
    ELSE LET locale == parse_key_locale(Tail(input))
         IN  IF IsOk(locale) /\ IsOk(char("]", locale.rest))
             THEN Ok(Tail(locale.rest), locale.val)
             ELSE Error

key_of(key, locale) ==
    IF locale.val = None THEN Ok(locale.rest, Simple(key))
    ELSE Ok(locale.rest, Localized(key, locale.val[1]))

key_locale(key) ==
    IF ~IsOk(key) THEN key
    ELSE key_of(key.val, opt(key.rest, bracketed_locale(key.rest)))

parse_key(input) == key_locale(parse_key_part(input))

entry_value(key, value) ==
    IF ~IsOk(value) THEN value
    ELSE Ok(value.rest, [key |-> key, value |-> value.val])

\* tuple((space0, char('='), space0)), then parse_value
entry_separator(key) ==
    IF ~IsOk(key) THEN key
    ELSE IF ~IsOk(char("=", DropSpan(key.rest, Space))) THEN Error
    ELSE entry_value(key.val,
                     parse_value(DropSpan(Tail(DropSpan(key.rest, Space)), Space)))

parse_entry(input) == entry_separator(parse_key(input))

(***************************************************************************)
(* Lines (lib.rs 46-52, 167-216)                                           *)
(***************************************************************************)
Comment(text) == [kind |-> "Comment", text |-> text]
EmptyLine(white_space) == [kind |-> "EmptyLine", white_space |-> white_space]
GroupHeader(header) == [kind |-> "GroupHeader", header |-> header]
Entry(key, value) == [kind |-> "Entry", key |-> key, value |-> value]

HeaderChars ==
    {c \in AllChars : is_ascii_char(c) /\ ~is_control(c) /\ c # "[" /\ c # "]"}

\* cut(char(']')) after the header's content
header_close(content, close) ==
    IF ~IsOk(close) THEN close ELSE Ok(close.rest, content)

\* The header's content and closing bracket without cut: a recoverable error.
header_content_uncut(s) ==
    IF SpanLen(s, HeaderChars) = 0 THEN Error
    ELSE header_close(TakeSpan(s, HeaderChars),
                      char("]", DropSpan(s, HeaderChars)))

\* recognize(cut(many1_count(satisfy(..)))) on the text after '['
header_content(s) ==
    IF SpanLen(s, HeaderChars) = 0 THEN cut(Error)
    ELSE header_close(TakeSpan(s, HeaderChars),
                      cut(char("]", DropSpan(s, HeaderChars))))

parse_group_header(input) ==
    IF ~IsOk(char("[", input)) THEN Error ELSE header_content(Tail(input))

\* recognize(pair(char('#'), not_line_ending)), given the second's result
comment_text(text) ==
    IF ~IsOk(text) THEN text ELSE Ok(text.rest, <<"#">> \o text.val)

parse_comment(input) ==
    IF ~IsOk(char("#", input)) THEN Error
    ELSE comment_text(not_line_ending(Tail(input)))

parse_end_of_line(input) == alt(line_ending(input), eof(input))

\* terminated(map(space1, Some), peek(parse_end_of_line))
white_space_line(ws) ==
    IF IsOk(ws) /\ IsOk(parse_end_of_line(ws.rest)) THEN Ok(ws.rest, Some(ws.val))
    ELSE Error

\* map(peek(line_ending), |_| None)
bare_line_ending(input) ==
    IF IsOk(line_ending(input)) THEN Ok(input, None) ELSE Error

\* An empty-line parser that takes a line of any text as white space.
parse_empty_line_any(input) ==
    alt(white_space_line(space1(input)),
        alt(bare_line_ending(input),
            IF input = <<>> THEN Error
            ELSE Ok(DropSpan(input, AllChars \ {"\n", "\r"}),
                    Some(TakeSpan(input, AllChars \ {"\n", "\r"})))))

parse_empty_line(input) ==
    alt(white_space_line(space1(input)), bare_line_ending(input))

\* map(parser, Line::...)
map_line(r, kind) ==
    IF ~IsOk(r) THEN r
    ELSE Ok(r.rest, CASE kind = "Comment" -> Comment(r.val)
                      [] kind = "GroupHeader" -> GroupHeader(r.val)
                      [] kind = "Entry" -> Entry(r.val.key, r.val.value)
                      [] kind = "EmptyLine" -> EmptyLine(r.val))

\* terminated(_, parse_end_of_line), given the first parser's result
end_of_line(line) ==
    IF ~IsOk(line) THEN line
    ELSE IF ~IsOk(parse_end_of_line(line.rest)) THEN Error
    ELSE Ok(parse_end_of_line(line.rest).rest, line.val)

parse_line(input) ==
    end_of_line(
        alt(map_line(parse_comment(input), "Comment"),
            alt(map_line(parse_group_header(input), "GroupHeader"),
                alt(map_line(parse_entry(input), "Entry"),
                    map_line(parse_empty_line(input), "EmptyLine")))))

(***************************************************************************)
(* The document and the fold (lib.rs 54-165)                               *)
(***************************************************************************)
\* An IndexMap is the sequence of its [key, value] pairs in insertion order.
IndexOf(m, key) ==
    IF \E i \in 1..Len(m) : m[i].key = key
    THEN CHOOSE i \in 1..Len(m) : m[i].key = key
    ELSE 0

\* An insert that moves a key already present to the end.
IndexMapInsertLast(m, key, value) ==
    Append(SelectSeq(m, LAMBDA e : e.key # key), [key |-> key, value |-> value])

\* IndexMap::insert: the value of a key already present is replaced where it
\* stands; a new key goes last.
IndexMapInsert(m, key, value) ==
    IF IndexOf(m, key) = 0 THEN Append(m, [key |-> key, value |-> value])
    ELSE [m EXCEPT ![IndexOf(m, key)].value = value]

Group(header, entries) == [header |-> header, entries |-> entries]

\* DesktopEntry::default(); comments stays empty without keep-comments.
DesktopEntryDefault == [groups |-> <<>>, comments |-> <<>>]

CommentsComment(text) == [kind |-> "Comment", text |-> text]
CommentsEmptyLine(white_space) == [kind |-> "EmptyLine", white_space |-> white_space]

\* A commit that always adds a new trailing group.
CommitGroupAppend(document, group) ==
    IF group = None THEN document
    ELSE [document EXCEPT
            !.groups = Append(@, [key |-> group[1].header,
                                  value |-> group[1].entries])]

\* document.groups.insert(group.header, group.entries) for an Option<Group>
CommitGroup(document, group) ==
    IF group = None THEN document
    ELSE [document EXCEPT
            !.groups = IndexMapInsert(@, group[1].header, group[1].entries)]

\* A log keyed by the number of entries logged so far.
LogCommentByEntries(keep, document, count, comment) ==
    IF keep
    THEN [document EXCEPT
            !.comments = IndexMapInsert(@, Len(document.comments), comment)]
    ELSE document

\* A log written whether or not keep-comments is compiled in.
LogCommentAlways(keep, document, count, comment) ==
    [document EXCEPT !.comments = IndexMapInsert(@, count, comment)]

\* document.comments.insert(count, comment), compiled in with keep-comments
LogComment(keep, document, count, comment) ==
    IF keep
    THEN [document EXCEPT !.comments = IndexMapInsert(@, count, comment)]
    ELSE document

\* Both variants of map_document_line; keep is the keep-comments feature.
\* The result is the next accumulator, or Panic when the entry arm unwraps a
\* group that is None.
map_document_line(keep, a, line) ==
    CASE line.kind = "Comment" ->
            [document |-> LogComment(keep, a.document, a.count,
                                     CommentsComment(line.text)),
             group |-> a.group,
             count |-> a.count + 1]
      [] line.kind = "EmptyLine" ->
            [document |-> LogComment(keep, a.document, a.count,
                                     CommentsEmptyLine(line.white_space)),
             group |-> a.group,
             count |-> a.count + 1]
      [] line.kind = "GroupHeader" ->
            [document |-> CommitGroup(a.document, a.group),
             group |-> Some(Group(line.header, <<>>)),
             count |-> a.count + 1]
      [] line.kind = "Entry" ->
            IF a.group = None THEN Panic
            ELSE [document |-> a.document,
                  group |-> Some(Group(a.group[1].header,
                                       IndexMapInsert(a.group[1].entries,
                                                      line.key, line.value))),
                  count |-> a.count + 1]

\* The verify closure of parse_desktop_entry (lib.rs 86-94): an Entry line is
\* kept only while has_entry holds.
verify_entry(r, flag) ==
    IF IsOk(r) /\ r.val.kind = "Entry" /\ ~flag THEN Error ELSE r

verify_line(text, flag) == verify_entry(parse_line(text), flag)

\* finish without the trailing eof.
finish_without_eof(text, a) == Ok(text, CommitGroup(a.document, a.group))

\* A closure that hands back the document and leaves the open group out.
finish_without_commit(text, a) ==
    IF IsOk(eof(text)) THEN Ok(text, a.document) ELSE Error

\* The closure after the fold (lib.rs 98-104), then eof.
finish(text, a) ==
    IF IsOk(eof(text)) THEN Ok(text, CommitGroup(a.document, a.group))
    ELSE Error

(***************************************************************************)
(* State                                                                   *)
(***************************************************************************)
VARIABLES
    input,          \* the text given to the function under execution
    keep_comments,  \* whether the keep-comments feature is compiled in
    rest,           \* the unconsumed text of the fold
    acc,            \* the fold's accumulator (document, group, count)
    has_entry,      \* the Cell read and written by the verify closure
    lines,          \* history: the lines handed to map_document_line so far
    result,         \* None while running, else Some(what the call returned)
    fn,             \* the function the call applies
    output,         \* the String a serializer appends to
    new_line,       \* HeaderMapSerializer.new_line
    pending         \* None, or Some(the compound value under serialization:
                    \* its shape and the items still to be serialized)

vars == <<input, keep_comments, rest, acc, has_entry, lines, result, fn,
          output, new_line, pending>>

\* lib.rs 95: the fold's initial accumulator
AccInit == [document |-> DesktopEntryDefault, group |-> None, count |-> 0]

\* Entry of f(text); has_entry starts true (lib.rs 81).
Call(f, text, keep) ==
    /\ input = text
    /\ keep_comments = keep
    /\ rest = text
    /\ acc = AccInit
    /\ has_entry = TRUE
    /\ lines = <<>>
    /\ result = None
    /\ fn = f
    /\ output = <<>>
    /\ new_line = FALSE
    /\ pending = None

Folding == fn = "parse_desktop_entry" /\ result = None

\* fold_many0 accepts a line only if it consumed something.
Accepted(r) == IsOk(r) /\ Len(r.rest) # Len(rest)

Accept(r, next) ==
    /\ next # Panic
    /\ rest' = r.rest
    /\ acc' = next
    /\ has_entry' = IF r.val.kind = "GroupHeader" THEN TRUE ELSE has_entry
    /\ lines' = Append(lines, r.val)
    /\ UNCHANGED <<input, keep_comments, result, fn, output, new_line, pending>>

Return(value) ==
    /\ result' = Some(value)
    /\ UNCHANGED <<input, keep_comments, rest, acc, has_entry, lines, fn,
                   output, new_line, pending>>

LineAccepted(r) ==
    /\ Accepted(r)
    /\ Accept(r, map_document_line(keep_comments, acc, r.val))

LinePanics(r) ==
    /\ IF Accepted(r) THEN map_document_line(keep_comments, acc, r.val) = Panic
       ELSE r.k = "Panic"
    /\ Return(Panic)

LineFails(r) == r.k = "Failure" /\ Return(Failure)

LineStops(r) ==
    IF IsOk(r) THEN ~Accepted(r) /\ Return(Error)
    ELSE r.k = "Error" /\ Return(finish(rest, acc))

\* One iteration of fold_many0 that accepts a line.
FoldLine == Folding /\ LineAccepted(verify_line(rest, has_entry))

\* The iteration panics: in the line parser, or in map_document_line.
FoldPanic == Folding /\ LinePanics(verify_line(rest, has_entry))

\* The line parser fails: fold_many0 hands the failure on.
FoldFailure == Folding /\ LineFails(verify_line(rest, has_entry))

\* The line parser ends in a recoverable error and the fold stops there (an
\* accepted line of no characters is an error of fold_many0 itself); the open
\* group is committed and eof is required.
FoldStop == Folding /\ LineStops(verify_line(rest, has_entry))

(***************************************************************************)
(* Calls of the pure parsers                                               *)
(***************************************************************************)
ApplyFn(f, text) ==
    CASE f = "parse_value" -> parse_value(text)
      [] f = "parse_string" -> parse_string(text)
      [] f = "parse_group_header" -> parse_group_header(text)
      [] f = "parse_key" -> parse_key(text)
      [] f = "parse_entry" -> parse_entry(text)

Apply ==
    /\ fn # "parse_desktop_entry"
    /\ result = None
    /\ Return(ApplyFn(fn, input))

(***************************************************************************)
(* Bounded inputs and specifications                                       *)
(***************************************************************************)
\* All concatenations of at most n texts of F.
RECURSIVE Concats(_, _)
Extend(P, F) == P \cup {p \o f : p \in P, f \in F}
Concats(F, n) == IF n = 0 THEN {<<>>} ELSE Extend(Concats(F, n - 1), F)

\* Documents: at most MaxLines lines, the last one without a line ending (an
\* empty last line makes the text end in a line ending).
MaxLines == 4

LineTexts ==
    { <<"[", "a", "]">>, <<"[", "b", "]">>,
      <<"k", "=", "x">>, <<"k", "=", "y">>, <<"j", "=", "x">>,
      <<"#", "c">>, <<>>, <<"k">>, <<"[", "a">> }

DocTexts ==
    {t \o l : t \in Concats({l \o <<"\n">> : l \in LineTexts}, MaxLines - 1),
              l \in LineTexts}

Init == \E text \in DocTexts : Call("parse_desktop_entry", text, FALSE)

Next == FoldLine \/ FoldPanic \/ FoldFailure \/ FoldStop

Spec == Init /\ [][Next]_vars

\* Values: concatenations of at most MaxValueFrags fragments.
MaxValueFrags == 3

ValueFragments ==
    { <<"t", "r", "u", "e">>, <<"f", "a", "l", "s", "e">>, <<"1">>,
      <<"4", ".", "2", "0">>, <<"f", "o", "o", "v", "i", "e", "w">>,
      <<"e">>, <<"x">>, <<" ">>, <<"\n">>, <<"a", "s">> }

ValueTexts == Concats(ValueFragments, MaxValueFrags)

InitValue == \E text \in ValueTexts : Call("parse_value", text, FALSE)

NextApply == Apply

SpecValue == InitValue /\ [][NextApply]_vars

\* Values with escapes and non-ASCII characters, given to parse_value and
\* to parse_string.
MaxEscapeFrags == 4

EscapeFragments ==
    { <<"\\">>, <<"n">>, <<"s">>, <<"t">>, <<"r">>, <<";">>, <<"a">>, <<"q">>,
      <<"U+00E9">>, <<"t", "r", "u", "e">>, <<"\n">> }

EscapeTexts == Concats(EscapeFragments, MaxEscapeFrags)

InitEscape ==
    \E text \in EscapeTexts, f \in {"parse_value", "parse_string"} :
        Call(f, text, FALSE)

SpecEscape == InitEscape /\ [][NextApply]_vars

\* Header lines: every text of at most MaxHeaderChars characters of
\* HeaderAlphabet, given to parse_group_header and to parse_desktop_entry.
MaxHeaderChars == 4

HeaderAlphabet == {"[", "]", "a", "=", "#", "\n", "\t", "U+00E9"}

HeaderTexts == Concats({<<c>> : c \in HeaderAlphabet}, MaxHeaderChars)

InitHeader ==
    \E text \in HeaderTexts, f \in {"parse_group_header", "parse_desktop_entry"} :
        Call(f, text, FALSE)

NextHeader == Apply \/ FoldLine \/ FoldPanic \/ FoldFailure \/ FoldStop

SpecHeader == InitHeader /\ [][NextHeader]_vars

(***************************************************************************)
(* Properties of parse_desktop_entry                                       *)
(***************************************************************************)
Returned == result # None
ReturnedOk == result # None /\ result[1].k = "Ok"
ParsingDocument == fn = "parse_desktop_entry"

\* The indices of the header lines among the lines folded so far.
HeaderIdx == {i \in 1..Len(lines) : lines[i].kind = "GroupHeader"}
EntryIdx == {i \in 1..Len(lines) : lines[i].kind = "Entry"}
Max(S) == CHOOSE m \in S : \A x \in S : x <= m
Min(S) == CHOOSE m \in S : \A x \in S : m <= x

\* The entry lines of the declaration opened by header line h: those up to
\* the next header line.
Segment(h) ==
    {i \in EntryIdx : i > h /\ \A g \in HeaderIdx : g > h => i < g}

\* C1: whenever parse_desktop_entry returns success the remaining text it
\* returns is empty, and a call that stopped with text left after the last
\* recognized line returns a failure instead of a document.
C1_WholeInputConsumed ==
    (ParsingDocument /\ Returned) =>
        /\ result[1].k = "Ok" => (result[1].rest = <<>> /\ rest = <<>>)
        /\ rest # <<>> => result[1].k # "Ok"

\* A call that folded two lines and returned a document.
C1_Witness == ParsingDocument /\ ReturnedOk /\ Len(lines) >= 2

\* Some header text is declared on two header lines with a header line of
\* another group between them.
Redeclared ==
    \E i, j, k \in HeaderIdx :
        /\ i < j /\ j < k
        /\ lines[i].header = lines[k].header
        /\ lines[j].header # lines[i].header

\* C2 as stated: with a header declared twice and another group between, the
\* document holds one group per header line, the later declaration last, and
\* the entries of the earlier declaration are still in the document.
C2_OneGroupPerHeaderLine ==
    (ParsingDocument /\ ReturnedOk /\ Redeclared) =>
        LET groups == result[1].val.groups
        IN  /\ Len(groups) = Cardinality(HeaderIdx)
            /\ groups[Len(groups)].key = lines[Max(HeaderIdx)].header

\* C2 as amended: the document holds one group per distinct header text, in
\* the order of the first declarations, and the group of a header declared
\* more than once holds the entries of its last declaration only (the
\* entries of an earlier declaration are replaced, not merged and not kept).
C2_OneGroupPerHeaderText ==
    (ParsingDocument /\ ReturnedOk) =>
        LET groups == result[1].val.groups
            First(h) == Min({i \in HeaderIdx : lines[i].header = h})
            Last(h) == Max({i \in HeaderIdx : lines[i].header = h})
        IN  /\ \A i \in HeaderIdx : \E p \in 1..Len(groups) : groups[p].key = lines[i].header
            /\ \A p \in 1..Len(groups) : \E i \in HeaderIdx : groups[p].key = lines[i].header
            /\ \A p, q \in 1..Len(groups) :
                    p < q => First(groups[p].key) < First(groups[q].key)
            /\ \A p \in 1..Len(groups) :
                    /\ \A n \in 1..Len(groups[p].value) :
                            \E i \in Segment(Last(groups[p].key)) :
                                /\ lines[i].key = groups[p].value[n].key
                                /\ lines[i].value = groups[p].value[n].value
                                /\ \A j \in Segment(Last(groups[p].key)) :
                                        j > i => lines[j].key # lines[i].key
                    /\ \A i \in Segment(Last(groups[p].key)) :
                            \E n \in 1..Len(groups[p].value) :
                                groups[p].value[n].key = lines[i].key

\* A document returned for a text that declares a header, gives it an entry,
\* declares another group and then the first header again.
C2_Witness ==
    /\ ParsingDocument /\ ReturnedOk /\ Redeclared
    /\ Segment(Min(HeaderIdx)) # {}

\* C3: the entries of the group being built hold one entry per key of the
\* entry lines since its header; the value is that of the last line with the
\* key, the position that of the first line with the key, and the other
\* entries keep their line order.  The returned document holds the open
\* group with these entries.
C3_OverwriteInPlace ==
    (ParsingDocument /\ acc.group # None) =>
        LET entries == acc.group[1].entries
            seg == Segment(Max(HeaderIdx))
            FirstLine(key) == Min({i \in seg : lines[i].key = key})
            LastLine(key) == Max({i \in seg : lines[i].key = key})
        IN  /\ \A i \in seg : \E n \in 1..Len(entries) : entries[n].key = lines[i].key
            /\ \A n \in 1..Len(entries) :
                    /\ \E i \in seg : lines[i].key = entries[n].key
                    /\ entries[n].value = lines[LastLine(entries[n].key)].value
            /\ \A n, m \in 1..Len(entries) :
                    n < m => FirstLine(entries[n].key) < FirstLine(entries[m].key)
            /\ ReturnedOk =>
                    \E p \in 1..Len(result[1].val.groups) :
                        /\ result[1].val.groups[p].key = acc.group[1].header
                        /\ result[1].val.groups[p].value = entries

\* A returned document whose last group saw a key twice with different
\* values and another key between the two lines.
C3_Witness ==
    /\ ParsingDocument /\ ReturnedOk /\ acc.group # None
    /\ \E i, j, k \in Segment(Max(HeaderIdx)) :
            /\ i < j /\ j < k
            /\ lines[i].key = lines[k].key
            /\ lines[i].value # lines[k].value
            /\ lines[j].key # lines[i].key

\* The fold stands at an entry line and no header line came before it.
LeadingEntry ==
    /\ ParsingDocument
    /\ HeaderIdx = {}
    /\ IsOk(parse_line(rest))
    /\ parse_line(rest).val.kind = "Entry"

\* C4: a text whose first entry line precedes every header line makes
\* parse_desktop_entry return a parse failure (an error value), without
\* reaching the insertion into a group that does not exist.
C4_LeadingEntryIsParseFailure ==
    (Returned /\ LeadingEntry) => result[1].k \in {"Error", "Failure"}

(***************************************************************************)
(* Properties of parse_value                                               *)
(***************************************************************************)
\* The physical line a value text starts with, and the text from its line
\* ending on.
ValueLine(s) == Take(s, SpanLen(s, AllChars \ {"\n", "\r"}))
ValueTail(s) == Drop(s, Len(ValueLine(s)))

ParsedValue == fn = "parse_value" /\ Returned

TrueText == <<"t", "r", "u", "e">>
FalseText == <<"f", "a", "l", "s", "e">>

\* The first of the four kinds whose parser accepts the text.
FirstMatch(text) ==
    IF IsOk(parse_boolean(text)) THEN "Boolean"
    ELSE IF IsOk(parse_numeric(text)) THEN "Numeric"
    ELSE IF IsOk(parse_string(text)) THEN "String"
    ELSE IF IsOk(parse_local_string(text)) THEN "LocaleString"
    ELSE "none"

\* A line that neither starts as a boolean or a float nor holds a backslash.
OtherAscii(line) ==
    /\ is_ascii(line)
    /\ \A i \in 1..Len(line) : line[i] # ESCAPE_CHAR
    /\ ~StartsWith(line, TrueText) /\ ~StartsWith(line, FalseText)
    /\ float(line).k = "Error"

FloatLiteral(line) ==
    IsOk(recognize_float_value(line)) /\ recognize_float_value(line).rest = <<>>

\* C6: parse_value yields Boolean only when the line is exactly true or
\* false and Numeric only when the whole line is a decimal float literal; a
\* line that goes on after such a prefix is a string value holding every
\* character of the line.
C6_ValueIsWholeLine ==
    (ParsedValue /\ IsOk(result[1])) =>
        /\ result[1].val.tag = "Boolean" =>
              ValueLine(input) \in {TrueText, FalseText}
        /\ result[1].val.tag = "Numeric" => FloatLiteral(ValueLine(input))
        /\ (/\ is_ascii(ValueLine(input))
            /\ ValueLine(input) \notin {TrueText, FalseText}
            /\ ~FloatLiteral(ValueLine(input))
            /\ \A i \in 1..Len(ValueLine(input)) :
                   ValueLine(input)[i] # ESCAPE_CHAR)
           => result[1].val = String(ValueLine(input))

(***************************************************************************)
(* Properties of the escapes                                               *)
(***************************************************************************)
EscapeLetters == {"s", "n", "t", "r", "\\", ";"}

\* What the two characters backslash, c stand for.
EscapeMeaning(c) ==
    CASE c = "s" -> " " [] c = "n" -> "\n" [] c = "t" -> "\t"
      [] c = "r" -> "\r" [] c = "\\" -> "\\" [] c = ";" -> ";"

\* Every backslash of s is followed by an escape letter.
RECURSIVE WellEscaped(_)
WellEscaped(s) ==
    IF s = <<>> THEN TRUE
    ELSE IF s[1] = "\\"
         THEN Len(s) >= 2 /\ s[2] \in EscapeLetters /\ WellEscaped(Drop(s, 2))
    ELSE WellEscaped(Tail(s))

\* A well escaped text with each escape replaced by what it stands for.
RECURSIVE Decoded(_)
Decoded(s) ==
    IF s = <<>> THEN <<>>
    ELSE IF s[1] = "\\" THEN <<EscapeMeaning(s[2])>> \o Decoded(Drop(s, 2))
    ELSE <<s[1]>> \o Decoded(Tail(s))

ParsedString == fn = "parse_string" /\ Returned

\* C7: for an ASCII value text in which every backslash is followed by one
\* of s, n, t, r, backslash, semicolon, the parsed string is the text with
\* each escape replaced by space, newline, tab, carriage return, backslash,
\* semicolon and every other character copied in order; a text without a
\* backslash parses to itself.
C7_EscapesDecoded ==
    (/\ ParsedString
     /\ is_ascii(ValueLine(input))
     /\ WellEscaped(ValueLine(input))) =>
        /\ result[1] = Ok(ValueTail(input), Decoded(ValueLine(input)))
        /\ (\A i \in 1..Len(ValueLine(input)) : ValueLine(input)[i] # "\\")
              => result[1].val = ValueLine(input)

\* A text with an escape between two plain characters.
C7_Witness ==
    /\ ParsedString
    /\ ValueLine(input) = <<"a", "\\", "n", "a">>
    /\ result[1].k = "Ok"

\* C8: a value holding a backslash followed by a character other than s, n,
\* t, r, backslash, semicolon, or by the end of the line, is a fatal failure
\* of parse_value: no value of any kind is returned.
C8_BadEscapeIsFatal ==
    (ParsedValue /\ ~WellEscaped(ValueLine(input))) => result[1] = Failure

\* The line is neither taken as Boolean nor as Numeric.
NotBooleanOrNumeric(line) ==
    /\ ~StartsWith(line, TrueText) /\ ~StartsWith(line, FalseText)
    /\ float(line).k = "Error"

\* C9: a well escaped value that is not Boolean or Numeric yields String of
\* the decoded text when that text is ASCII and LocaleString of the decoded
\* text otherwise, wherever the non-ASCII characters stand.
C9_StringKindByAscii ==
    (/\ ParsedValue
     /\ WellEscaped(ValueLine(input))
     /\ NotBooleanOrNumeric(ValueLine(input))) =>
        result[1] = Ok(ValueTail(input),
                       IF is_ascii(Decoded(ValueLine(input)))
                       THEN String(Decoded(ValueLine(input)))
                       ELSE LocaleString(Decoded(ValueLine(input))))

(***************************************************************************)
(* Properties of parse_group_header                                        *)
(***************************************************************************)
\* s is [, n >= 1 header characters and ].
HeaderOfLen(s, n) ==
    /\ Len(s) >= n + 2
    /\ s[1] = "["
    /\ \A i \in 2..(n + 1) : s[i] \in HeaderChars
    /\ s[n + 2] = "]"

WellFormedHeader(s) == \E n \in 1..Len(s) : HeaderOfLen(s, n)

MalformedHeader(s) == s # <<>> /\ s[1] = "[" /\ ~WellFormedHeader(s)

\* The texts the physical lines of the input start.
LineStarts ==
    {input} \cup {Drop(input, i) : i \in {j \in 1..Len(input) : input[j] = "\n"}}

\* C10: parse_group_header on [, header characters, ] returns the text
\* between the brackets and leaves what follows; after an opening [ a
\* missing content or closing ] is a Failure, and parse_desktop_entry on a
\* text with such a line returns no document: a call that reached the line
\* returns that Failure.
C10_HeaderOrFailure ==
    /\ (fn = "parse_group_header" /\ Returned) =>
          /\ \A n \in 1..Len(input) :
                HeaderOfLen(input, n) =>
                    result[1] = Ok(Drop(input, n + 2), [i \in 1..n |-> input[i + 1]])
          /\ MalformedHeader(input) => result[1] = Failure
          /\ (input = <<>> \/ input[1] # "[") => result[1] = Error
    /\ (ParsingDocument /\ Returned) =>
          /\ (\E s \in LineStarts : MalformedHeader(s)) => result[1].k # "Ok"
          /\ MalformedHeader(rest) => result[1] = Failure

\* parse_desktop_entry folded a line and then failed on an unclosed header.
C10_Witness ==
    /\ ParsingDocument /\ Returned
    /\ Len(lines) >= 1
    /\ MalformedHeader(rest)
    /\ result[1] = Failure

(***************************************************************************)
(* Keys: the key k, an optional bracket of at most MaxSegments locale      *)
(* fragments, closed or not, and an optional separator and value, given to *)
(* parse_key and to parse_entry.                                           *)
(***************************************************************************)
MaxSegments == 4

SegmentFragments ==
    { <<"e", "n">>, <<"_", "U", "S">>, <<".", "E">>, <<"@", "m">>,
      <<"_">> }

KeyBrackets ==
    {<<>>} \cup
    { <<"[">> \o s \o c : s \in Concats(SegmentFragments, MaxSegments),
                           c \in {<<"]">>, <<>>} }

KeyTexts ==
    { <<"k">> \o b \o v : b \in KeyBrackets, v \in {<<>>, <<"=", "v">>} }

InitKey ==
    \E text \in KeyTexts, f \in {"parse_key", "parse_entry"} :
        Call(f, text, FALSE)

SpecKey == InitKey /\ [][NextApply]_vars

(***************************************************************************)
(* Properties of parse_key                                                 *)
(***************************************************************************)
\* The maximal runs of key characters of a text, in order.
RECURSIVE KeyRuns(_)
KeyRuns(s) ==
    IF s = <<>> THEN <<>>
    ELSE IF s[1] \in KeyChars
         THEN <<TakeSpan(s, KeyChars)>> \o KeyRuns(DropSpan(s, KeyChars))
    ELSE KeyRuns(Tail(s))

\* The n-th run of the input when the segment is present.
Segment_n(present, n) ==
    IF present /\ n <= Len(KeyRuns(input)) THEN Some(KeyRuns(input)[n]) ELSE None

Count(b) == IF b THEN 1 ELSE 0

\* The locale of the runs after the name: the lang and the present segments.
RunLocale(c, e, m) ==
    Locale(KeyRuns(input)[2], Segment_n(c, 3), Segment_n(e, 3 + Count(c)),
           Segment_n(m, 3 + Count(c) + Count(e)))

Prefixed(sep, o) == IF o = None THEN <<>> ELSE <<sep>> \o o[1]

\* name[lang_country.encoding@modifier] with the absent segments left out.
KeyText(name, locale) ==
    name \o <<"[">> \o locale.lang \o Prefixed("_", locale.country)
         \o Prefixed(".", locale.encoding) \o Prefixed("@", locale.modifier)
         \o <<"]">>

\* The input starts with a key whose bracket holds a lang and the segments
\* chosen by c, e, m in that order, each of them not empty.
LocalizedBy(c, e, m) ==
    /\ Len(KeyRuns(input)) >= 2 + Count(c) + Count(e) + Count(m)
    /\ StartsWith(input, KeyText(KeyRuns(input)[1], RunLocale(c, e, m)))

\* A bracket follows the name and no choice of segments closes it.
BracketNotClosed ==
    /\ input # <<>> /\ input[1] \in KeyChars
    /\ StartsWith(DropSpan(input, KeyChars), <<"[">>)
    /\ \A c, e, m \in BOOLEAN : ~LocalizedBy(c, e, m)

\* C11: parse_key on a name with no bracket yields Simple(name); on
\* name[lang] with the segments _country, .encoding, @modifier in that
\* order it yields Localized with each present segment Some and each absent
\* one None; a bracket not closed directly after the last present segment
\* never yields a Localized key, and parse_entry fails on it.
C11_KeyLocale ==
    /\ (fn = "parse_key" /\ Returned) =>
          /\ (/\ input # <<>> /\ input[1] \in KeyChars
              /\ ~StartsWith(DropSpan(input, KeyChars), <<"[">>)) =>
                result[1] = Ok(DropSpan(input, KeyChars),
                               Simple(TakeSpan(input, KeyChars)))
          /\ \A c, e, m \in BOOLEAN :
                LocalizedBy(c, e, m) =>
                    result[1] =
                        Ok(Drop(input, Len(KeyText(KeyRuns(input)[1],
                                                   RunLocale(c, e, m)))),
                           Localized(KeyRuns(input)[1], RunLocale(c, e, m)))
          /\ BracketNotClosed =>
                result[1] = Ok(DropSpan(input, KeyChars),
                               Simple(TakeSpan(input, KeyChars)))
    /\ (fn = "parse_entry" /\ Returned /\ BracketNotClosed) =>
          result[1] = Error

\* parse_key returned a locale with all four segments.
C11_Witness ==
    /\ fn = "parse_key" /\ ReturnedOk
    /\ LocalizedBy(TRUE, TRUE, TRUE)
    /\ result[1].val.tag = "Localized"
    /\ result[1].val.locale.modifier # None

(***************************************************************************)
(* Documents parsed with keep-comments: at most MaxCommentLines lines.     *)
(***************************************************************************)
MaxCommentLines == 4

CommentLineTexts ==
    { <<"[", "a", "]">>, <<"k", "=", "x">>, <<"#", "c">>,
      <<>>, <<" ">>, <<"\t", " ">>, <<"k">>, <<"[", "a">> }

CommentDocTexts ==
    { t \o l : t \in Concats({l \o <<"\n">> : l \in CommentLineTexts},
                             MaxCommentLines - 1),
               l \in CommentLineTexts }

InitComments ==
    \E text \in CommentDocTexts : Call("parse_desktop_entry", text, TRUE)

SpecComments == InitComments /\ [][Next]_vars

(***************************************************************************)
(* Properties of the comment log                                           *)
(***************************************************************************)
\* The physical lines of a text: a line ending closes a line, and text after
\* the last line ending is a line of its own.
RECURSIVE PhysLines(_)
PhysLines(s) ==
    IF s = <<>> THEN <<>>
    ELSE IF SpanLen(s, AllChars \ {"\n"}) = Len(s) THEN <<s>>
    ELSE <<Take(s, SpanLen(s, AllChars \ {"\n"}))>>
             \o PhysLines(Drop(s, SpanLen(s, AllChars \ {"\n"}) + 1))

Consumed == Take(input, Len(input) - Len(rest))

IsBlank(line) == \A i \in 1..Len(line) : line[i] \in {" ", "\t"}

\* The log entries of the physical lines ls, the first of them of index i.
RECURSIVE LogOf(_, _)
LogOf(ls, i) ==
    IF ls = <<>> THEN <<>>
    ELSE (IF ls[1] # <<>> /\ ls[1][1] = "#"
          THEN <<[key |-> i, value |-> CommentsComment(ls[1])]>>
          ELSE IF ls[1] = <<>>
          THEN <<[key |-> i, value |-> CommentsEmptyLine(None)]>>
          ELSE IF IsBlank(ls[1])
          THEN <<[key |-> i, value |-> CommentsEmptyLine(Some(ls[1]))]>>
          ELSE <<>>)
         \o LogOf(Tail(ls), i + 1)

\* C12: with keep-comments the counter is the number of lines parsed so far
\* (0 at the start, one more for every line of any kind), and the log of a
\* successful parse holds exactly one entry per comment line and per blank
\* line of the input, keyed by the line's zero-based index: Comment(text
\* with the #), EmptyLine(the white space, or none); header and entry lines
\* add nothing.
C12_CommentLog ==
    (ParsingDocument /\ keep_comments) =>
        /\ acc.count = Len(PhysLines(Consumed))
        /\ acc.count = Len(lines)
        /\ acc.document.comments = LogOf(PhysLines(Consumed), 0)
        /\ ReturnedOk => result[1].val.comments = LogOf(PhysLines(input), 0)

\* A document returned with a comment logged after a header or entry line
\* and a blank line logged too.
C12_Witness ==
    /\ ParsingDocument /\ keep_comments /\ ReturnedOk
    /\ \E i \in 1..Len(result[1].val.comments) :
          /\ result[1].val.comments[i].key >= i
          /\ result[1].val.comments[i].value.kind = "Comment"
    /\ \E i \in 1..Len(result[1].val.comments) :
          result[1].val.comments[i].value.kind = "EmptyLine"

(***************************************************************************)
(* parse_desktop_entry as one function of its text (lib.rs 80-108): the    *)
(* fold run to its end.                                                    *)
(***************************************************************************)
RECURSIVE fold_many0(_, _, _, _)

\* One iteration, given the line parser's result r on text.
fold_line(keep, text, a, flag, r) ==
    IF IsOk(r) /\ Len(r.rest) # Len(text)
    THEN IF map_document_line(keep, a, r.val) = Panic THEN Panic
         ELSE fold_many0(keep, r.rest, map_document_line(keep, a, r.val),
                         r.val.kind = "GroupHeader" \/ flag)
    ELSE IF IsOk(r) THEN Error
    ELSE IF r.k = "Error" THEN finish(text, a)
    ELSE r

fold_many0(keep, text, a, flag) ==
    fold_line(keep, text, a, flag, verify_line(text, flag))

parse_desktop_entry(keep, text) == fold_many0(keep, text, AccInit, TRUE)

(***************************************************************************)
(* Documents parsed without keep-comments: at most MaxPlainLines lines.    *)
(***************************************************************************)
MaxPlainLines == 4

PlainLineTexts ==
    { <<"[", "a", "]">>, <<"[", "b", "]">>, <<"k", "=", "x">>,
      <<"#", "c">>, <<>>, <<" ", "\t">>, <<"k">>, <<"[", "a">> }

PlainDocTexts ==
    { t \o l : t \in Concats({l \o <<"\n">> : l \in PlainLineTexts},
                             MaxPlainLines - 1),
               l \in PlainLineTexts }

InitPlain ==
    \E text \in PlainDocTexts : Call("parse_desktop_entry", text, FALSE)

SpecPlain == InitPlain /\ [][Next]_vars

(***************************************************************************)
(* Properties of comment and blank lines                                   *)
(***************************************************************************)
\* The lines that are neither comments nor blank.
KeptLines(ls) ==
    SelectSeq(ls, LAMBDA l : ~(IsBlank(l) \/ l[1] = "#"))

RECURSIVE JoinLines(_)
JoinLines(ls) ==
    IF ls = <<>> THEN <<>> ELSE ls[1] \o <<"\n">> \o JoinLines(Tail(ls))

\* The text with its comment lines and blank lines removed.
Stripped(text) == JoinLines(KeptLines(PhysLines(text)))

\* C13: without keep-comments, comment lines and blank lines have no effect:
\* the document of an input that parses is the document of the same input
\* with all comment and blank lines removed.
C13_CommentsHaveNoEffect ==
    (ParsingDocument /\ ~keep_comments /\ Returned) =>
        /\ result[1] = parse_desktop_entry(FALSE, input)
        /\ result[1].k = "Ok" =>
              /\ parse_desktop_entry(FALSE, Stripped(input)).k = "Ok"
              /\ result[1].val = parse_desktop_entry(FALSE, Stripped(input)).val

\* A document with a group parsed from a text holding a comment line, a
\* blank line and an entry.
C13_Witness ==
    /\ ParsingDocument /\ ~keep_comments /\ ReturnedOk
    /\ Len(result[1].val.groups) >= 1
    /\ \E i \in 1..Len(lines) : lines[i].kind = "Comment"
    /\ \E i \in 1..Len(lines) : lines[i].kind = "EmptyLine"
    /\ \E i \in 1..Len(lines) : lines[i].kind = "Entry"

(***************************************************************************)
(* Properties of malformed lines                                           *)
(***************************************************************************)
IsCommentLine(l) == l # <<>> /\ l[1] = "#"
IsHeaderLine(l) == parse_group_header(l) = Ok(<<>>, parse_group_header(l).val)
IsEntryLine(l) == parse_entry(l) = Ok(<<>>, parse_entry(l).val)

\* A physical line that is no comment, header or entry and holds a character
\* that is not white space.
MalformedLine(l) ==
    /\ ~IsBlank(l)
    /\ ~IsCommentLine(l)
    /\ IF IsOk(parse_group_header(l)) THEN ~IsHeaderLine(l)
       ELSE IF IsOk(parse_entry(l)) THEN ~IsEntryLine(l)
       ELSE TRUE

\* C14: a line that is not a comment, header or entry and holds a character
\* other than white space makes the whole parse fail wherever it stands:
\* no text with such a line yields a document, and the call that stops at
\* such a line returns a failure, not the document of the lines before it.
C14_MalformedLineFails ==
    (ParsingDocument /\ Returned) =>
        /\ (\E i \in 1..Len(PhysLines(input)) :
                MalformedLine(PhysLines(input)[i])) => result[1].k # "Ok"
        /\ (rest # <<>> /\ MalformedLine(PhysLines(rest)[1])) =>
              result[1] \in {Error, Failure}

\* The parse folded a header and an entry, stopped at a malformed line with
\* a further line after it, and returned a failure.
C14_Witness ==
    /\ ParsingDocument /\ Returned
    /\ Len(lines) >= 2
    /\ Len(PhysLines(rest)) >= 2
    /\ MalformedLine(PhysLines(rest)[1])
    /\ result[1] = Error

(***************************************************************************)
(* The serializer (serde/ser.rs).  A value is what its Serialize           *)
(* implementation tells a serializer: its shape in the serde data model    *)
(* and its parts.                                                          *)
(***************************************************************************)
ScalarShapes ==
    {"bool", "i8", "i16", "i32", "i64", "u8", "u16", "u32", "u64", "f32",
     "f64", "char", "str", "bytes"}

ElementShapes == {"seq", "tuple", "tuple_struct", "tuple_variant"}

CompoundShapes == ElementShapes \cup {"map", "struct", "struct_variant"}

Scalar(shape, v) == [shape |-> shape, v |-> v]
UnitValue == [shape |-> "unit"]
NoneValue == [shape |-> "none"]
SomeValue(v) == [shape |-> "some", value |-> v]
UnitStruct(name) == [shape |-> "unit_struct", name |-> name]
UnitVariant(name, variant) ==
    [shape |-> "unit_variant", name |-> name, variant |-> variant]
NewtypeStruct(name, v) == [shape |-> "newtype_struct", name |-> name, value |-> v]
NewtypeVariant(name, variant, v) ==
    [shape |-> "newtype_variant", name |-> name, variant |-> variant, value |-> v]
\* seq, tuple, tuple_struct, tuple_variant: items are the elements; map:
\* items are [key, value] entries; struct, struct_variant: items are
\* [key, value] fields.
Compound(shape, name, variant, items) ==
    [shape |-> shape, name |-> name, variant |-> variant, items |-> items]

\* What a serializer call leaves: how it ended and the output buffer.
SerOk(out) == [k |-> "Ok", output |-> out]
SerErr(e, out) == [k |-> "Err", error |-> e, output |-> out]
SerPanic(out) == [k |-> "Panic", output |-> out]

\* What a serializer call returns: Ok(()), Err(error), or a panic.
Done == [k |-> "Ok"]
Err(e) == [k |-> "Err", error |-> e]
Returns(r) == IF r.k = "Err" THEN Err(r.error) ELSE [k |-> r.k]

emit_new_line(out) == Append(out, "\n")
emit_header(out, header) == out \o <<"[">> \o header \o <<"]">>
emit_key(out, key) == out \o key \o <<"=">>

\* value.serialize(&mut ValueSerializer): every method is todo!().
ValueSerializer(out, value) == SerPanic(out)

\* value.serialize(&mut EntrySerializer): every method is todo!().
EntrySerializer(out, value) == SerPanic(out)

\* key.serialize(&mut HeaderSerializer): every method is todo!().
HeaderSerializer(out, value) == SerPanic(out)

\* value.serialize(&mut SectionSerializer) (ser.rs 395-568)
RECURSIVE SectionSerializer(_, _)
SectionSerializer(out, value) ==
    CASE value.shape \in ScalarShapes -> SerErr("ExpectedMap", out)
      [] value.shape = "none" -> SerOk(out)
      [] value.shape = "some" -> SectionSerializer(out, value.value)
      [] value.shape = "unit" -> SerOk(out)
      [] value.shape = "unit_struct" -> SerOk(emit_header(out, value.name))
      [] value.shape = "unit_variant" ->
            SerOk(emit_key(emit_header(out, value.name), value.variant))
      [] value.shape = "newtype_struct" ->
            EntrySerializer(emit_header(out, value.name), value.value)
      [] value.shape = "newtype_variant" ->
            EntrySerializer(emit_key(out, value.variant), value.value)
      [] value.shape = "seq" -> SerErr("ExpectedMap", out)
      [] OTHER -> SerPanic(out)

\* serialize_some hands the inner value to the same serializer.
RECURSIVE Inner(_)
Inner(value) == IF value.shape = "some" THEN Inner(value.value) ELSE value

\* A root scalar taken as the unit value.
HeaderMapSerializerScalarOk(out, value) ==
    CASE value.shape \in ScalarShapes \cup {"none", "unit"} -> SerOk(out)
      [] value.shape = "unit_struct" -> SerOk(emit_header(out, value.name))
      [] value.shape = "unit_variant" -> SerErr("ExpectedMap", out)
      [] value.shape = "newtype_struct" ->
            SectionSerializer(emit_header(out, value.name), value.value)
      [] value.shape = "newtype_variant" ->
            ValueSerializer(emit_header(out, value.variant), value.value)

\* value.serialize(&mut HeaderMapSerializer) for a value that is no
\* compound (ser.rs 60-171)
HeaderMapSerializer(out, value) ==
    CASE value.shape \in ScalarShapes -> SerErr("ExpectedMap", out)
      [] value.shape \in {"none", "unit"} -> SerOk(out)
      [] value.shape = "unit_struct" -> SerOk(emit_header(out, value.name))
      [] value.shape = "unit_variant" -> SerErr("ExpectedMap", out)
      [] value.shape = "newtype_struct" ->
            SectionSerializer(emit_header(out, value.name), value.value)
      [] value.shape = "newtype_variant" ->
            ValueSerializer(emit_header(out, value.variant), value.value)

\* to_string (ser.rs 1174-1176) is todo!().
to_string(value) == Panic

(***************************************************************************)
(* Serializer calls                                                        *)
(***************************************************************************)
Serializing == fn = "HeaderMapSerializer" /\ result = None

ParserIdle == UNCHANGED <<input, keep_comments, rest, acc, has_entry, lines, fn>>

\* The call ends with r: its output stays in the buffer.
SerReturn(r) ==
    /\ result' = Some(Returns(r))
    /\ output' = r.output
    /\ UNCHANGED <<new_line, pending>>
    /\ ParserIdle

\* to_string(&value)
CallToString ==
    /\ fn = "to_string" /\ result = None
    /\ result' = Some(to_string(input))
    /\ UNCHANGED <<output, new_line, pending>>
    /\ ParserIdle

\* A value that is not a compound: one method of HeaderMapSerializer.
SerializeValue ==
    /\ Serializing /\ pending = None
    /\ Inner(input).shape \notin CompoundShapes
    /\ SerReturn(HeaderMapSerializer(output, Inner(input)))

\* serialize_seq .. serialize_struct_variant return the serializer itself
\* (ser.rs 173-222).
SerializeBegin ==
    /\ Serializing /\ pending = None
    /\ Inner(input).shape \in CompoundShapes
    /\ pending' = Some([shape |-> Inner(input).shape, items |-> Inner(input).items])
    /\ UNCHANGED <<result, output, new_line>>
    /\ ParserIdle

\* The item is serialized with r: an item that fails ends the call, else
\* the next item is due.
NextItem(r, nl) ==
    IF r.k = "Ok"
    THEN /\ output' = r.output
         /\ new_line' = nl
         /\ pending' = Some([pending[1] EXCEPT !.items = Tail(@)])
         /\ UNCHANGED result
         /\ ParserIdle
    ELSE SerReturn(r)

HasItem == Serializing /\ pending # None /\ pending[1].items # <<>>

\* SerializeSeq, SerializeTuple, SerializeTupleStruct, SerializeTupleVariant
\* (ser.rs 225-317): serialize_element, serialize_field
SerializeElement ==
    /\ HasItem /\ pending[1].shape \in ElementShapes
    /\ NextItem(SectionSerializer(output, pending[1].items[1]), TRUE)

\* The value of a map entry, after its key was serialized with r.
EntryValue(r, value) ==
    IF r.k = "Ok" THEN NextItem(ValueSerializer(r.output, value), TRUE)
    ELSE SerReturn(r)

\* SerializeMap (ser.rs 319-343): serialize_key, then serialize_value
SerializeEntry ==
    /\ HasItem /\ pending[1].shape = "map"
    /\ EntryValue(HeaderSerializer(output, pending[1].items[1].key),
                  pending[1].items[1].value)

\* SerializeStruct::serialize_field (ser.rs 345-361)
SerializeField ==
    /\ HasItem /\ pending[1].shape = "struct"
    /\ NextItem(ValueSerializer(emit_header(output, pending[1].items[1].key),
                                pending[1].items[1].value), new_line)

\* SerializeStructVariant::serialize_field (ser.rs 363-379)
SerializeVariantField ==
    /\ HasItem /\ pending[1].shape = "struct_variant"
    /\ NextItem(ValueSerializer(emit_key(output, pending[1].items[1].key),
                                pending[1].items[1].value), new_line)

\* end(): todo!() for a tuple struct and a tuple variant, Ok(()) else.
SerializeEnd ==
    /\ Serializing /\ pending # None /\ pending[1].items = <<>>
    /\ SerReturn(IF pending[1].shape \in {"tuple_struct", "tuple_variant"}
                 THEN SerPanic(output) ELSE SerOk(output))

(***************************************************************************)
(* Serialized values: scalars of every kind, and compounds of at most      *)
(* MaxItems items.                                                         *)
(***************************************************************************)
MaxItems == 2

IntShapes == {"i8", "i16", "i32", "i64", "u8", "u16", "u32", "u64"}

\* A scalar's value is held as the text that writes it.
Scalars ==
    {Scalar("bool", b) : b \in {<<"t", "r", "u", "e">>, <<"f", "a", "l", "s", "e">>}}
    \cup {Scalar(s, <<"1">>) : s \in IntShapes \cup {"f32", "f64"}}
    \cup {Scalar("u32", <<"2">>), Scalar("char", <<"a">>), Scalar("bytes", <<"a">>)}
    \cup {Scalar("str", s) : s \in {<<>>, <<"a">>, <<"b">>}}

\* The record Test of the tests of ser.rs.
TestRecord ==
    Compound("struct", <<"T", "e", "s", "t">>, <<>>,
             << [key |-> <<"i", "n", "t">>, value |-> Scalar("u32", <<"1">>)],
                [key |-> <<"s", "e", "q">>,
                 value |-> Compound("seq", <<>>, <<>>,
                                    <<Scalar("str", <<"a">>),
                                      Scalar("str", <<"b">>)>>)] >>)

\* The values compounds are made of.
ItemValues ==
    { Scalar("u32", <<"1">>), Scalar("u32", <<"2">>), Scalar("str", <<"a">>),
      UnitValue, UnitStruct(<<"A">>), UnitVariant(<<"E">>, <<"U", "n", "i", "t">>),
      NewtypeStruct(<<"N">>, Scalar("u32", <<"1">>)),
      Compound("seq", <<>>, <<>>, <<Scalar("str", <<"a">>), Scalar("str", <<"b">>)>>),
      Compound("struct", <<"I", "n">>, <<>>,
               <<[key |-> <<"a">>, value |-> Scalar("u32", <<"1">>)]>>) }

FieldNames == {<<"a">>, <<"i", "n", "t">>, <<"s", "e", "q">>}

RECURSIVE SeqsUpTo(_, _)
SeqsUpTo(S, n) ==
    IF n = 0 THEN {<<>>}
    ELSE SeqsUpTo(S, n - 1)
         \cup {Append(s, x) : s \in {q \in SeqsUpTo(S, n - 1) : Len(q) = n - 1},
                              x \in S}

\* Fields and entries: keys that differ, in any order.
DistinctKeys(s) == \A i, j \in 1..Len(s) : s[i].key = s[j].key => i = j

FieldLists ==
    {s \in SeqsUpTo([key : FieldNames, value : ItemValues], MaxItems) :
        DistinctKeys(s)}

EntryLists ==
    {s \in SeqsUpTo([key : {Scalar("str", <<"a">>), Scalar("u32", <<"1">>)},
                     value : {Scalar("u32", <<"1">>), Scalar("str", <<"a">>)}],
                    MaxItems) : DistinctKeys(s)}

Compounds ==
    {Compound(shape, <<"T">>, <<"V">>, items) :
        shape \in ElementShapes, items \in SeqsUpTo(ItemValues, MaxItems)}
    \cup {Compound("map", <<>>, <<>>, items) : items \in EntryLists}
    \cup {Compound("struct", <<"T", "e", "s", "t">>, <<>>, items) :
            items \in FieldLists}
    \cup {Compound("struct_variant", <<"E">>, <<"S", "t", "r", "u", "c", "t">>,
                   items) : items \in FieldLists}

\* The enum E of the tests of ser.rs.
EnumValues ==
    { UnitVariant(<<"E">>, <<"U", "n", "i", "t">>),
      NewtypeVariant(<<"E">>, <<"N", "e", "w", "t", "y", "p", "e">>, Scalar("u32", <<"1">>)),
      Compound("tuple_variant", <<"E">>, <<"T", "u", "p", "l", "e">>,
               <<Scalar("u32", <<"1">>), Scalar("u32", <<"2">>)>>),
      Compound("struct_variant", <<"E">>, <<"S", "t", "r", "u", "c", "t">>,
               <<[key |-> <<"a">>, value |-> Scalar("u32", <<"1">>)]>>) }

PlainValues ==
    Scalars \cup ItemValues \cup EnumValues \cup Compounds
    \cup {NoneValue, TestRecord}
    \cup {NewtypeStruct(<<"N">>, v) : v \in ItemValues}
    \cup {NewtypeVariant(<<"E">>, <<"V">>, v) : v \in ItemValues}

RootValues == PlainValues \cup {SomeValue(v) : v \in Scalars \cup ItemValues}

\* A serializer call: the value is the call's input, the buffer starts empty.
InitSer ==
    \E value \in RootValues, f \in {"HeaderMapSerializer", "to_string"} :
        Call(f, value, FALSE)

NextSer ==
    \/ CallToString
    \/ SerializeValue
    \/ SerializeBegin
    \/ SerializeElement
    \/ SerializeEntry
    \/ SerializeField
    \/ SerializeVariantField
    \/ SerializeEnd

SpecSer == InitSer /\ [][NextSer]_vars

(***************************************************************************)
(* Properties of the serializer                                            *)
(***************************************************************************)
RootCall == fn \in {"HeaderMapSerializer", "to_string"} /\ Returned

\* The call succeeded and the text it produced is text.
Produced(text) ==
    IF fn = "to_string" THEN result[1] = [k |-> "Ok", text |-> text]
    ELSE result[1] = Done /\ output = text

IsScalar(v) == v.shape \in ScalarShapes
IsScalarSeq(v) ==
    v.shape = "seq" /\ \A i \in 1..Len(v.items) : IsScalar(v.items[i])
IsSimple(v) == IsScalar(v) \/ IsScalarSeq(v)

RECURSIVE JoinItems(_)
JoinItems(items) ==
    IF items = <<>> THEN <<>>
    ELSE IF Len(items) = 1 THEN items[1].v
    ELSE items[1].v \o <<";">> \o JoinItems(Tail(items))

\* The text of a simple value: a scalar, or scalars joined by semicolons.
ValueText(v) == IF IsScalar(v) THEN v.v ELSE JoinItems(v.items)

RECURSIVE FieldLines(_)
FieldLines(fields) ==
    IF fields = <<>> THEN <<>>
    ELSE <<"\n">> \o fields[1].key \o <<"=">> \o ValueText(fields[1].value)
             \o FieldLines(Tail(fields))

\* One group: the header line and one key=value line per field.
GroupText(name, fields) == <<"[">> \o name \o <<"]">> \o FieldLines(fields)

\* A record with at least one field, all fields simple values.
SimpleRecord(v) ==
    /\ v.shape = "struct" /\ v.items # <<>>
    /\ \A i \in 1..Len(v.items) : IsSimple(v.items[i].value)

\* C15: serializing a root-level record with named fields produces exactly
\* one group: the header line [name] of the record's type name, then one
\* key=value line per field in declaration order, joined by single newlines
\* with no trailing newline.
C15_RecordIsOneGroup ==
    (RootCall /\ SimpleRecord(input)) =>
        Produced(GroupText(input.name, input.items))

RecordShaped(v) == v.shape \in {"struct", "map", "struct_variant"}

\* A record whose first field that is not a simple value is a record.
NestedRecord(v) ==
    /\ v.shape = "struct"
    /\ \E i \in 1..Len(v.items) :
          /\ RecordShaped(v.items[i].value)
          /\ \A j \in 1..(i - 1) : IsSimple(v.items[j].value)

\* C16: inside a group, starting a nested record makes the serialization
\* return the NestingNotSupported error: it neither succeeds nor aborts
\* without returning an error.
C16_NestingRejected ==
    (RootCall /\ NestedRecord(input)) => result[1] = Err("NestingNotSupported")

\* C17: serializing a bare scalar at the root returns the ExpectedMap error
\* for every scalar and appends nothing to the output buffer; a scalar that
\* is an element of a root sequence is refused by the section serializer
\* with the same error.
C17_ScalarIsExpectedMap ==
    (fn = "HeaderMapSerializer" /\ Returned) =>
        /\ IsScalar(input) => (result[1] = Err("ExpectedMap") /\ output = <<>>)
        /\ (/\ pending # None
            /\ pending[1].shape \in ElementShapes
            /\ pending[1].items # <<>>
            /\ IsScalar(pending[1].items[1])) => result[1] = Err("ExpectedMap")

\* A root f64 was refused.
C17_Witness ==
    /\ fn = "HeaderMapSerializer" /\ Returned
    /\ input = Scalar("f64", <<"1">>)
    /\ result[1] = Err("ExpectedMap")

\* C18: whenever a serializer operation returns an error, the output buffer
\* holds what it held before the root serialization started (here: nothing).
C18_NoPartialText ==
    (RootCall /\ result[1].k = "Err") => output = <<>>

\* C20: a root-level unit variant fails with UnsupportedType; E::Newtype(1)
\* gives the group [E] with the line Newtype=1, E::Tuple(1, 2) gives [E]
\* with Tuple=1;2, and E::Struct{a: 1} gives [E] with a=1.
C20_EnumVariants ==
    RootCall =>
        /\ input.shape = "unit_variant" => result[1] = Err("UnsupportedType")
        /\ (input.shape = "newtype_variant" /\ IsSimple(input.value)) =>
              Produced(GroupText(input.name,
                                 <<[key |-> input.variant, value |-> input.value]>>))
        /\ (input.shape = "tuple_variant" /\ input.items # <<>>
                /\ \A i \in 1..Len(input.items) : IsScalar(input.items[i])) =>
              Produced(GroupText(input.name,
                                 <<[key |-> input.variant,
                                    value |-> Compound("seq", <<>>, <<>>,
                                                       input.items)]>>))
        /\ (input.shape = "struct_variant" /\ input.items # <<>>
                /\ \A i \in 1..Len(input.items) : IsSimple(input.items[i].value)) =>
              Produced(GroupText(input.name, input.items))

(***************************************************************************)
(* Round trip                                                              *)
(***************************************************************************)
\* The text without the line ending it ends with, if any.
Chomp(text) ==
    IF text # <<>> /\ text[Len(text)] = "\n" THEN Take(text, Len(text) - 1)
    ELSE text

\* C19: for a text of group headers and entries with Simple keys and plain
\* values, serializing the document parse_desktop_entry returns reproduces
\* the text, up to the removal of comment lines and blank lines.
C19_RoundTrip ==
    (ParsingDocument /\ ~keep_comments /\ ReturnedOk
        /\ Len(result[1].val.groups) >= 1) =>
        to_string(result[1].val) = [k |-> "Ok", text |-> Chomp(Stripped(input))]

(***************************************************************************)
(* The groups of the document                                              *)
(***************************************************************************)
\* Documents of up to MaxGroupLines lines over three header texts.
MaxGroupLines == 4

GroupLineTexts ==
    { <<"[", "a", "]">>, <<"[", "b", "]">>, <<"[", "c", "]">>,
      <<"k", "=", "x">>, <<"j", "=", "y">>, <<"[", "a">> }

GroupDocTexts ==
    {t \o l : t \in Concats({l \o <<"\n">> : l \in GroupLineTexts},
                            MaxGroupLines - 1),
              l \in GroupLineTexts}

InitGroups == \E text \in GroupDocTexts : Call("parse_desktop_entry", text, FALSE)

SpecGroups == InitGroups /\ [][Next]_vars

\* The p-th header line.
NthHeader(p) ==
    CHOOSE i \in HeaderIdx : Cardinality({j \in HeaderIdx : j <= i}) = p

\* The entries hold exactly the entry lines of the declaration opened by
\* header line h: one entry per key, with the value of the last line of
\* that key.
HoldsSegment(entries, h) ==
    /\ \A i \in Segment(h) :
            \E n \in 1..Len(entries) :
                /\ entries[n].key = lines[i].key
                /\ (\A j \in Segment(h) : j > i => lines[j].key # lines[i].key)
                        => entries[n].value = lines[i].value
    /\ \A n \in 1..Len(entries) :
            \E i \in Segment(h) : lines[i].key = entries[n].key
    /\ \A n, m \in 1..Len(entries) : n # m => entries[n].key # entries[m].key
    /\ Segment(h) = {} => entries = <<>>

\* No header text stands on two header lines.
DistinctHeaders ==
    \A i, j \in HeaderIdx : i # j => lines[i].header # lines[j].header

\* C21 as stated: a returned document holds one group per header line, in
\* the order of the header lines, each with exactly the entries of the lines
\* up to the next header line (none for a header followed by no entry line),
\* the group of the last header line included.
C21_GroupPerHeaderLine ==
    (ParsingDocument /\ ReturnedOk) =>
        LET groups == result[1].val.groups
        IN  /\ Len(groups) = Cardinality(HeaderIdx)
            /\ \A p \in 1..Cardinality(HeaderIdx) :
                    p <= Len(groups) =>
                        /\ groups[p].key = lines[NthHeader(p)].header
                        /\ HoldsSegment(groups[p].value, NthHeader(p))

\* The header lines whose group the document must hold: all but the one of
\* the open group while the fold runs, all of them in a returned document.
Committed ==
    IF ReturnedOk \/ HeaderIdx = {} THEN HeaderIdx
    ELSE HeaderIdx \ {Max(HeaderIdx)}

\* C21 as amended: at every step of the fold the open group is that of the
\* last header line and holds the entry lines since it; the document holds a
\* group for the text of every earlier header line, and a returned document
\* for the text of the last header line too.  The groups stand in the order
\* in which their texts were first declared, and each holds exactly the
\* entry lines of the last committed declaration of its text, none if no
\* entry line follows that header.  When no header text is declared twice
\* this is one group per header line, in the order of the header lines.
C21_CommitsEveryGroup ==
    ParsingDocument =>
        LET groups == IF ReturnedOk THEN result[1].val.groups
                      ELSE acc.document.groups
            First(h) == Min({i \in Committed : lines[i].header = h})
            Last(h) == Max({i \in Committed : lines[i].header = h})
        IN  /\ (acc.group = None) <=> (HeaderIdx = {})
            /\ acc.group # None =>
                    /\ acc.group[1].header = lines[Max(HeaderIdx)].header
                    /\ HoldsSegment(acc.group[1].entries, Max(HeaderIdx))
            /\ \A i \in Committed :
                    \E p \in 1..Len(groups) : groups[p].key = lines[i].header
            /\ \A p \in 1..Len(groups) :
                    /\ \E i \in Committed : groups[p].key = lines[i].header
                    /\ HoldsSegment(groups[p].value, Last(groups[p].key))
            /\ \A p, q \in 1..Len(groups) :
                    p < q => First(groups[p].key) < First(groups[q].key)
            /\ DistinctHeaders =>
                    /\ Len(groups) = Cardinality(Committed)
                    /\ \A p \in 1..Len(groups) :
                            /\ groups[p].key = lines[NthHeader(p)].header
                            /\ HoldsSegment(groups[p].value, NthHeader(p))

\* A returned document of three groups in the order of their header lines:
\* the first with an entry, the second empty, the third the group that was
\* open at the last line.
C21_Witness ==
    /\ ParsingDocument /\ ReturnedOk /\ DistinctHeaders
    /\ Cardinality(HeaderIdx) = 3
    /\ Len(result[1].val.groups) = 3
    /\ result[1].val.groups[1].value # <<>>
    /\ result[1].val.groups[2].value = <<>>
    /\ result[1].val.groups[3].key = acc.group[1].header

(***************************************************************************)
(* What a successful root serialization wrote                              *)
(***************************************************************************)
\* C22: every root serialization that returns success has written at least
\* one group header: the output is not empty and what it holds starts with
\* a [header], whatever the root value (unit, none, an empty sequence or
\* tuple, an empty map, a struct variant).
C22_SuccessWritesHeader ==
    (fn = "HeaderMapSerializer" /\ Returned /\ result[1] = Done) =>
        /\ output # <<>>
        /\ output[1] = "["

(***************************************************************************)
(* Termination of the fold                                                 *)
(***************************************************************************)
\* Documents of up to MaxTermLines lines, among them empty lines, lines of
\* white space, a line ended by "\r\n" and a last line cut by the end of
\* the input.
MaxTermLines == 4

TermLineTexts ==
    { <<"[", "a", "]">>, <<"k", "=", "x">>, <<"#", "c">>, <<>>, <<" ">>,
      <<"\r">>, <<"[", "a">> }

TermDocTexts ==
    {t \o l : t \in Concats({l \o <<"\n">> : l \in TermLineTexts},
                            MaxTermLines - 1),
              l \in TermLineTexts}

InitTerm == \E text \in TermDocTexts : Call("parse_desktop_entry", text, FALSE)

\* The call runs on one thread with nothing to wait for: a step that can be
\* taken is taken.
SpecTerm == InitTerm /\ [][Next]_vars /\ WF_vars(Next)

\* A line that parse_line accepts takes at least one character, at the end
\* of the input too; so the lines folded and the characters left never
\* exceed the characters of the input, and the fold has taken one step per
\* line.
LinesConsume ==
    /\ IsOk(parse_line(rest)) => Len(parse_line(rest).rest) < Len(rest)
    /\ Len(lines) + Len(rest) <= Len(input)
    /\ acc.count = Len(lines)

\* The call returned a document or a failure.
ReturnedValue == Returned /\ result[1].k \in {"Ok", "Error", "Failure"}

\* C23: parse_desktop_entry terminates on every finite input: every line
\* parse_line accepts consumes at least one character, the fold takes at
\* most as many steps as the input has characters, and the call then
\* returns either a document or a failure.  The steps taken are the lines
\* folded, so the bound on the steps is a bound on Len(lines); a call that
\* has ended has returned a document or a failure.
C23_Terminates ==
    ParsingDocument =>
        /\ LinesConsume
        /\ Returned => ReturnedValue

=============================================================================
